---- MODULE Spec2Model ----
(***************************************************************************)
(* Model of the picture_box frontend pagination logic:                     *)
(*   - the Pagination component (components/Pagination.tsx): the effect    *)
(*     that computes the window of page numbers, and the three onClick     *)
(*     handlers (previous arrow, page number, next arrow);                 *)
(*   - the mock list provider listPicturesOk and its dataset `resolves`.   *)
(*                                                                         *)
(* JavaScript numbers that can be non-finite (pageCount = Math.ceil(x / 0) *)
(* is Infinity or NaN) are modelled as records [k, v]:                     *)
(*   [k |-> "fin", v |-> n]   the integer n                                *)
(*   [k |-> "inf", v |-> 1]   +Infinity      [k |-> "inf", v |-> -1]  -Inf *)
(*   [k |-> "nan", v |-> 0]   NaN                                          *)
(***************************************************************************)
EXTENDS Integers, Sequences, FiniteSets, TLC

\* ---------------------------------------------------------------- bounds
MaxTotal == 24
MaxPageSize == 3
NegCurrent == 2
MaxCurrent == 12
CapCurrent == 20

\* ------------------------------------------------------ program constants
length == 54
page_size_const == 10

Totals == (0..MaxTotal) \cup {length}
PageSizes == (0..MaxPageSize) \cup {page_size_const}
Currents == (0 - NegCurrent)..MaxCurrent

\* ------------------------------------------------------------ JS numbers
Fin(n) == [k |-> "fin", v |-> n]
Infinity == [k |-> "inf", v |-> 1]
NegInfinity == [k |-> "inf", v |-> 0 - 1]
NaN == [k |-> "nan", v |-> 0]

IsNaN(a) == a.k = "nan"

\* a + b
JsAdd(a, b) ==
  IF IsNaN(a) \/ IsNaN(b) THEN NaN
  ELSE IF a.k = "inf" /\ b.k = "inf" THEN (IF a.v = b.v THEN a ELSE NaN)
  ELSE IF a.k = "inf" THEN a
  ELSE IF b.k = "inf" THEN b
  ELSE Fin(a.v + b.v)

JsNeg(a) == IF a.k = "nan" THEN NaN ELSE [k |-> a.k, v |-> 0 - a.v]

\* a - b
JsSub(a, b) == JsAdd(a, JsNeg(b))

\* a < b (false as soon as one side is NaN)
JsLt(a, b) ==
  /\ ~IsNaN(a)
  /\ ~IsNaN(b)
  /\ \/ a.k = "fin" /\ b.k = "fin" /\ a.v < b.v
     \/ a.k = "inf" /\ a.v < 0 /\ ~(b.k = "inf" /\ b.v < 0)
     \/ b.k = "inf" /\ b.v > 0 /\ ~(a.k = "inf" /\ a.v > 0)

\* a <= b
JsLe(a, b) == ~IsNaN(a) /\ ~IsNaN(b) /\ ~JsLt(b, a)

\* a >= b
JsGe(a, b) == JsLe(b, a)

\* Math.max(a, b)
MathMax(a, b) ==
  IF IsNaN(a) \/ IsNaN(b) THEN NaN ELSE IF JsLt(a, b) THEN b ELSE a

\* Math.min(a, b)
MathMin(a, b) ==
  IF IsNaN(a) \/ IsNaN(b) THEN NaN ELSE IF JsLt(b, a) THEN b ELSE a

\* x | 0 : ToInt32.  Every number of the model is an integer inside the
\* signed 32-bit range, on which ToInt32 maps a value to itself.
ToInt32(x) == x

\* Math.ceil(total / page_size) for total >= 0, page_size >= 0
CeilDiv(total, page_size) ==
  IF page_size = 0
  THEN (IF total = 0 THEN NaN ELSE Infinity)
  ELSE Fin((total + page_size - 1) \div page_size)

\* ------------------------------------------- Pagination: the effect body
\* beforeOffset = current - 5
CalcBeforeOffset(current) == Fin(current - 5)

\* left = Math.max(1, beforeOffset)
CalcLeft(bo) == MathMax(Fin(1), bo)

\* right = Math.min(current + 4, pageCount)
CalcRight(current, pc) == MathMin(Fin(current + 4), pc)

\* afterOffset = pageCount - current - 5
CalcAfterOffset(pc, current) == JsSub(JsSub(pc, Fin(current)), Fin(5))

WidenRightSignSlip(r, bo, pc) ==
  IF JsLt(bo, Fin(0)) THEN MathMin(pc, JsAdd(r, bo)) ELSE r

WidenRightDropped(r, bo, pc) == r

\* if (beforeOffset < 0) right = Math.min(pageCount, right - beforeOffset)
WidenRight(r, bo, pc) ==
  IF JsLt(bo, Fin(0)) THEN MathMin(pc, JsSub(r, bo)) ELSE r

WidenLeftUnclamped(l, ao) ==
  IF JsLt(ao, Fin(0)) THEN JsAdd(ao, l) ELSE l

\* if (afterOffset < 0) left = Math.max(1, afterOffset + left)
WidenLeft(l, ao) ==
  IF JsLt(ao, Fin(0)) THEN MathMax(Fin(1), JsAdd(ao, l)) ELSE l

\* for (let i = left; i <= right; i++) pageArray.push(i)
RECURSIVE PushLoop(_, _, _)
PushLoop(arr, i, r) ==
  IF JsLe(Fin(i), r) THEN PushLoop(Append(arr, i), i + 1, r) ELSE arr

\* The whole effect: the values of the component's variables and of the
\* pageArray signal after the effect ran on descriptor p.
Effect(p) ==
  LET total == ToInt32(p.total)
      page_size == ToInt32(p.page_size)
      current == ToInt32(p.current)
      pc == CeilDiv(total, page_size)
      bo == CalcBeforeOffset(current)
      l0 == CalcLeft(bo)
      r0 == CalcRight(current, pc)
      ao == CalcAfterOffset(pc, current)
      r1 == WidenRight(r0, bo, pc)
      l1 == WidenLeft(l0, ao)
  IN [pageCount |-> pc, beforeOffset |-> bo, left |-> l1, right |-> r1,
      afterOffset |-> ao, pageArray |-> PushLoop(<<>>, l1.v, r1)]

\* ------------------------------------------------------- the mock dataset
\* one element of `resolves`: the object parsed from the JSON of iteration i
Resolve(i) ==
  [middle |-> "m", origin |-> "origin", s |-> "s", i |-> i,
   hello |-> "xs", hel |-> "xs"]

\* the module-level loop that fills `resolves`
BuildResolves == [j \in 1..length |-> Resolve(j - 1)]

StartZeroBased(current) == current * 10

\* start = (current - 1) * 10
StartOf(current) == (current - 1) * 10

\* end = start + 10
EndOf(start) == start + 10

InSliceInclusiveEnd(index, start, end) == index >= start /\ index <= end

\* if (index >= start && index < end)
InSlice(index, start, end) == index >= start /\ index < end

\* resolves.forEach((value, index) => { ... }) from position `index` on; the
\* `return` of the callback only ends that one callback invocation.
RECURSIVE ForEach(_, _, _, _, _)
ForEach(data, list, index, start, end) ==
  IF index >= Len(data) THEN list
  ELSE ForEach(data,
               IF InSlice(index, start, end)
               THEN Append(list, data[index + 1]) ELSE list,
               index + 1, start, end)

DescriptorClamped(current, data) ==
  [current |-> IF current < 1 THEN 1 ELSE current,
   page_size |-> 10, total |-> length]

\* the pagination object literal of the return statement
Descriptor(current, data) ==
  [current |-> current, page_size |-> 10, total |-> length]

listPicturesOk(data, current) ==
  LET start == StartOf(current)
      end == EndOf(start)
  IN [list |-> ForEach(data, <<>>, 0, start, end),
      pagination |-> Descriptor(current, data)]

\* ------------------------------------------------------------------ state
VARIABLES
  pagination,    \* props.pagination: [current, page_size, total]
  pageCount, beforeOffset, left, right, afterOffset,  \* component variables
  pageArray,     \* the pageArray signal
  resolves,      \* the dataset of the list provider
  arg,           \* argument of the latest listPicturesOk call
  response,      \* value returned by the latest listPicturesOk call
  lastOp,        \* the handler / function that ran last
  invoked        \* whether the last click handler called props.pageSetter

effectVars == <<pageCount, beforeOffset, left, right, afterOffset, pageArray>>
listVars == <<resolves, arg, response>>
vars == <<pagination, pageCount, beforeOffset, left, right, afterOffset,
          pageArray, resolves, arg, response, lastOp, invoked>>

\* createEffect: the effect runs on descriptor p
RunEffect(p) ==
  LET e == Effect(p)
  IN /\ pageCount' = e.pageCount
     /\ beforeOffset' = e.beforeOffset
     /\ left' = e.left
     /\ right' = e.right
     /\ afterOffset' = e.afterOffset
     /\ pageArray' = e.pageArray

Init ==
  /\ pagination \in [current : Currents, page_size : PageSizes, total : Totals]
  /\ LET e == Effect(pagination)
     IN /\ pageCount = e.pageCount
        /\ beforeOffset = e.beforeOffset
        /\ left = e.left
        /\ right = e.right
        /\ afterOffset = e.afterOffset
        /\ pageArray = e.pageArray
  /\ resolves = BuildResolves
  /\ arg = 0
  /\ response = [list |-> <<>>,
                 pagination |-> [current |-> 0, page_size |-> 0, total |-> 0]]
  /\ lastOp = "none"
  /\ invoked = FALSE

\* props.pageSetter("current", v): the descriptor with current set to v,
\* after which the effect re-runs on the changed descriptor
PageSetter(v) ==
  /\ v <= CapCurrent
  /\ pagination' = [pagination EXCEPT !.current = v]
  /\ RunEffect(pagination')
  /\ invoked' = TRUE

NoSetter ==
  /\ invoked' = FALSE
  /\ UNCHANGED pagination
  /\ UNCHANGED effectVars

PrevClickOffByOne ==
  /\ IF pagination.current <= 0 THEN NoSetter
     ELSE PageSetter(pagination.current - 1)
  /\ lastOp' = "prev"
  /\ UNCHANGED listVars

\* onClick of the previous arrow
PrevClick ==
  /\ IF pagination.current <= 1 THEN NoSetter
     ELSE PageSetter(pagination.current - 1)
  /\ lastOp' = "prev"
  /\ UNCHANGED listVars

\* onClick of a rendered page number
PageClick ==
  \E n \in 1..Len(pageArray) :
    /\ PageSetter(pageArray[n])
    /\ lastOp' = "page"
    /\ UNCHANGED listVars

NextClickStrict ==
  /\ IF JsLt(pageCount, Fin(pagination.current)) THEN NoSetter
     ELSE PageSetter(pagination.current + 1)
  /\ lastOp' = "next"
  /\ UNCHANGED listVars

\* onClick of the next arrow
NextClick ==
  /\ IF JsGe(Fin(pagination.current), pageCount) THEN NoSetter
     ELSE PageSetter(pagination.current + 1)
  /\ lastOp' = "next"
  /\ UNCHANGED listVars

\* a call listPicturesOk(current)
ListPicturesOk ==
  \E current \in Currents :
    /\ arg' = current
    /\ response' = listPicturesOk(resolves, current)
    /\ lastOp' = "list"
    /\ UNCHANGED <<resolves, pagination, invoked>>
    /\ UNCHANGED effectVars

\* The Pagination component on its own, mounted on any descriptor.
Next == PrevClick \/ PageClick \/ NextClick

Spec == Init /\ [][Next]_vars

\* The component mounted on a descriptor of the list provider (page_size 10,
\* total = length), together with calls of listPicturesOk.
InitList ==
  /\ Init
  /\ pagination.page_size = page_size_const
  /\ pagination.total = length

NextList == ListPicturesOk \/ PrevClick \/ PageClick \/ NextClick

SpecList == InitList /\ [][NextList]_vars

\* ------------------------------------------------------------ properties
\* ceil(total / page_size) of a descriptor with page_size > 0
PagesOf(p) == (p.total + p.page_size - 1) \div p.page_size

InRange(p) == p.page_size > 0 /\ 1 <= p.current /\ p.current <= PagesOf(p)

\* C1: with page_size > 0 the page window holds at most 10 page numbers.
C1_WindowAtMostTen ==
  pagination.page_size > 0 => Len(pageArray) <= 10

\* C2: with page_size > 0 the page window is a run of consecutive ascending
\* integers, all within 1..pageCount, and it is empty when total = 0.
C2_WindowConsecutiveInRange ==
  pagination.page_size > 0 =>
    /\ \A n \in 1..Len(pageArray) :
         /\ 1 <= pageArray[n]
         /\ pageArray[n] <= PagesOf(pagination)
         /\ n > 1 => pageArray[n] = pageArray[n - 1] + 1
    /\ pagination.total = 0 => pageArray = <<>>

C2_Witness ==
  /\ pagination.page_size > 0
  /\ pagination.current > PagesOf(pagination)
  /\ Len(pageArray) > 1
  /\ pageArray[1] = 1
  /\ pageArray[Len(pageArray)] = PagesOf(pagination)

\* the items of the dataset at the 0-based positions of page `current`
ExpectedSlice(current) ==
  LET idx == {i \in 0..(length - 1) :
                (current - 1) * 10 <= i /\ i < (current - 1) * 10 + 10}
  IN IF idx = {} THEN <<>>
     ELSE LET first == CHOOSE m \in idx : \A x \in idx : m <= x
          IN [j \in 1..Cardinality(idx) |-> Resolve(first + j - 1)]

\* C3: listPicturesOk(current).list is exactly the dataset items at the
\* 0-based positions (current-1)*10 .. (current-1)*10+9 below total, in
\* dataset order: 10 items on pages 1..5, 4 items on page 6, none on a page
\* whose start is at or past total, none for current <= 0.
C3_ListIsSlice ==
  lastOp = "list" =>
    /\ response.list = ExpectedSlice(arg)
    /\ arg \in 1..5 => Len(response.list) = 10
    /\ arg = 6 => Len(response.list) = 4
    /\ (arg - 1) * 10 >= length => response.list = <<>>

C3_Witness ==
  /\ lastOp = "list"
  /\ arg = 6
  /\ Len(response.list) = 4
  /\ response.list[1] = Resolve(50)
  /\ response.list[4] = Resolve(53)

\* C4: listPicturesOk(current).pagination is {current, page_size: 10,
\* total: 54} with the requested current echoed back, also when the list is
\* empty, and the dataset is never changed.
C4_DescriptorEchoed ==
  /\ lastOp = "list" =>
       response.pagination =
         [current |-> arg, page_size |-> 10, total |-> Len(resolves)]
  /\ resolves = [j \in 1..54 |-> Resolve(j - 1)]

C4_Witness ==
  /\ lastOp = "list"
  /\ arg > 6
  /\ response.list = <<>>
  /\ response.pagination.current = arg
  /\ response.pagination.total = 54

\* The next arrow is disabled on a descriptor whose current has reached
\* pageCount.  With page_size = 0 pageCount is Infinity or NaN and the
\* comparison current >= pageCount is never true.
NextDisabled(p) == p.page_size > 0 /\ p.current >= PagesOf(p)

\* C5: a click on the previous arrow with current <= 1, or on the next arrow
\* with current >= pageCount, does not call the page setter and leaves the
\* descriptor unchanged; any other arrow click calls the setter and changes
\* current by exactly -1 resp. +1.
C5_ArrowsDisabledAtEnds ==
  [][ /\ lastOp' = "prev" =>
           IF pagination.current <= 1
           THEN ~invoked' /\ pagination' = pagination
           ELSE invoked' /\ pagination'.current = pagination.current - 1
      /\ lastOp' = "next" =>
           IF NextDisabled(pagination)
           THEN ~invoked' /\ pagination' = pagination
           ELSE invoked' /\ pagination'.current = pagination.current + 1
    ]_vars

C5_Witness ==
  /\ lastOp = "next"
  /\ ~invoked
  /\ pagination.page_size > 0
  /\ PagesOf(pagination) >= 2
  /\ pagination.current = PagesOf(pagination)

\* C6: with total = 54 and page_size = 10 the window is 1..6 for current = 1
\* and for current = 6; whenever pageCount <= 9 and 1 <= current <= pageCount
\* the window is exactly 1..pageCount.
C6_SmallPageCountShowsAll ==
  /\ (InRange(pagination) /\ PagesOf(pagination) <= 9) =>
       pageArray = [n \in 1..PagesOf(pagination) |-> n]
  /\ (pagination.total = 54 /\ pagination.page_size = 10
      /\ pagination.current \in {1, 6}) =>
       pageArray = <<1, 2, 3, 4, 5, 6>>

C6_Witness ==
  /\ pagination.total = 54
  /\ pagination.page_size = 10
  /\ pagination.current = 1
  /\ pageArray = <<1, 2, 3, 4, 5, 6>>

\* C7: with page_size = 0 the window calculation produces an empty window.
C7_ZeroPageSizeEmptyWindow ==
  pagination.page_size = 0 => pageArray = <<>>

\* C8: with total and page_size fixed, a click on an arrow or on a rendered
\* page number taken from a descriptor with current in 1..pageCount leads to
\* a descriptor with current in 1..pageCount.
C8_NavigationStaysInRange ==
  [][ InRange(pagination) =>
        /\ pagination'.total = pagination.total
        /\ pagination'.page_size = pagination.page_size
        /\ InRange(pagination')
    ]_vars

C8_Witness ==
  /\ lastOp = "prev"
  /\ invoked
  /\ pagination.page_size > 0
  /\ pagination.current = 1
  /\ PagesOf(pagination) >= 2

\* C9: with page_size > 0 and 1 <= current <= pageCount the page window
\* contains current.
C9_WindowContainsCurrent ==
  InRange(pagination) => \E n \in 1..Len(pageArray) : pageArray[n] = pagination.current

C9_Witness ==
  /\ lastOp = "page"
  /\ InRange(pagination)
  /\ PagesOf(pagination) > 10
  /\ pagination.current = PagesOf(pagination)
  /\ \E n \in 1..Len(pageArray) : pageArray[n] = pagination.current

\* C10 as stated: the list of listPicturesOk(0) shares a dataset item with
\* the first page, the list of listPicturesOk(1) (items 0..9).
C10_ZeroOverlapsFirstPage ==
  (lastOp = "list" /\ arg = 0) =>
    \E n \in 1..Len(response.list) : \E i \in 0..9 : response.list[n] = Resolve(i)

\* C10 amended: for current <= 0 the list is empty (end <= 0 excludes every
\* index), while listPicturesOk(1) returns the items 0..9; the two share no
\* item.
C10_NonPositivePageIsEmpty ==
  /\ (lastOp = "list" /\ arg <= 0) => response.list = <<>>
  /\ (lastOp = "list" /\ arg = 1) =>
       /\ Len(response.list) = 10
       /\ \A n \in 1..10 : response.list[n] = Resolve(n - 1)

C10_Witness ==
  /\ lastOp = "list"
  /\ arg = 0
  /\ response.list = <<>>
  /\ response.pagination.current = 0

====
